---------------------------- MODULE Spec2Model ----------------------------
(***************************************************************************)
(* A model of the arena-backed concurrent skiplist of skl/skl_mmap.go:     *)
(* SkiplistMmap (Put, Get, findNear, findSpliceForLevel, findLast, the     *)
(* reference count) and IteratorMmap / UniIteratorMmap.                    *)
(*                                                                         *)
(* The code of every operation is translated once, as a pure step function *)
(* over the shared memory (the SkiplistMmap struct s and the arena a) and  *)
(* the locals l of the goroutine running it.  One step holds at most one   *)
(* access to shared memory.  The specifications differ in the scheduler:   *)
(*   Spec      goroutines interleave the steps of their Puts and Gets;     *)
(*   FairSpec  the same under a fair scheduler;                            *)
(*   WalkSpec  goroutines Put while an iterator walks forward;             *)
(*   ReadSpec  goroutines Put while a reader searches, step by step;       *)
(*   SeqSpec   one caller runs whole Puts, one after the other;            *)
(*   IterSpec  one caller runs whole Puts and drives one iterator;         *)
(*   RefSpec   reference holders create and close iterators and release    *)
(*             the list;                                                   *)
(*   StraySpec the same, with one release that has no reference.           *)
(***************************************************************************)
EXTENDS Integers, Sequences, FiniteSets, TLC

VARIABLES
  s,        \* the SkiplistMmap struct: height, head, ref, arena (a pointer)
  a,        \* the ArenaMmap object: cursor n, the nodes and key bytes in buf
  thr,      \* per goroutine: its program, position in it and locals
            \* (StraySpec: the caller of DecrRef that holds no reference)
  it,       \* the IteratorMmap of the sequential caller: list, n
  hist,     \* the last iterator calls since the last Put (newest first)
  model,    \* key -> value of the last sequential Put on it
            \* (WalkSpec: the keys put before the walk started)
  failed,   \* an assertion (y.AssertTrue) has failed: the process is gone
  fin,      \* the Puts that have returned, as <<goroutine, index>>
  obs,      \* the Puts that returned before some returned Put of their key started
  iters,    \* RefSpec: the iterators handed out, and where each is
            \* (ReadSpec: the call the reader is in)
  creator,  \* RefSpec: where the creator's reference is
  resets    \* how often arena.reset() has run, and whether an iterator was open then

vars == <<s, a, thr, it, hist, model, failed, fin, obs, iters, creator, resets>>

(***************************************************************************)
(* Bounds of the model.                                                    *)
(***************************************************************************)
\* maxHeight (H_MAX, 20 in the program): the height of the head's tower and the
\* cap of randomHeight, scaled down so that every height is drawn.
maxHeight == 3
\* Number of nodes a sequential run allocates besides the head.
MaxSeqNodes == 3
\* Number of operations in one goroutine's program.
MaxOps == 2
\* Number of iterators RefSpec hands out.
MaxIters == 3

(***************************************************************************)
(* Constants of the program.                                               *)
(***************************************************************************)
\* sizeof(node header): value 8, keyOffset 4, keySize 2, height 2.
NodeHeaderSize == 16
\* sizeof(uint32): one tower slot.
OffsetSize == 4
\* Alignment of a node in the arena.
NodeAlign == 8
\* Address of arena.buf[0]; a *node is an address inside buf.
BufBase == 1000
\* The nil pointer and the null offset.
NilPtr == 0

\* A uint64 as its two 32-bit words <<high, low>>.
Zero64 == <<0, 0>>

Min(x, y) == IF x < y THEN x ELSE y

\* bytes.Compare: byte-lexicographic, a proper prefix is smaller.
Compare(x, y) ==
  LET m == Min(Len(x), Len(y))
      d == {j \in 1..m : x[j] # y[j]}
  IN  IF d = {}
        THEN (IF Len(x) < Len(y) THEN -1 ELSE IF Len(x) > Len(y) THEN 1 ELSE 0)
        ELSE LET j == CHOOSE q \in d : \A r \in d : q <= r
             IN  IF x[j] < y[j] THEN -1 ELSE 1

(***************************************************************************)
(* The arena.                                                              *)
(***************************************************************************)
\* The cursor starts at 1: offset 0 is the null offset.
newArenaMmap ==
  [n |-> 1, nodes |-> <<>>, buf |-> <<>>, released |-> FALSE]

\* getNode: the node at an offset; offset 0 is no node.
getNode(off) == IF off = 0 THEN NilPtr ELSE BufBase + off

\* getNodeOffset: the offset of a node; nil has offset 0.
getNodeOffset(nd) == IF nd = NilPtr THEN 0 ELSE nd - BufBase

\* The node struct a pointer refers to.
Deref(ar, nd) == ar.nodes[getNodeOffset(nd)]

\* putNode: reserves the header and height tower slots, aligned; the region is zero.
putNode(ar, height) ==
  LET off == ((ar.n + NodeAlign - 1) \div NodeAlign) * NodeAlign
      zero == [value |-> Zero64, keyOffset |-> 0, keySize |-> 0, height |-> 0,
               tower |-> [lv \in 0..(height - 1) |-> 0]]
  IN  [off |-> off,
       a |-> [ar EXCEPT !.n = off + NodeHeaderSize + height * OffsetSize,
                        !.nodes = (off :> zero) @@ @]]

\* putKey: reserves len(key) bytes and copies the key in.
putKey(ar, key) ==
  LET off == ar.n
  IN  [off |-> off,
       a |-> [ar EXCEPT !.n = off + Len(key),
                        !.buf = [o \in off..(off + Len(key) - 1) |-> key[o - off + 1]] @@ @]]

\* getKey: the size bytes at an offset.
getKey(ar, off, size) == [j \in 1..size |-> ar.buf[off + j - 1]]

\* keyMmap: a node's key.
keyMmap(ar, nd) == getKey(ar, Deref(ar, nd).keyOffset, Deref(ar, nd).keySize)

\* getNextOffset: atomic load of tower[h].
getNextOffset(ar, nd, h) == Deref(ar, nd).tower[h]

\* getNext: the node after nd at a level.
getNext(ar, nd, height) == getNode(getNextOffset(ar, nd, height))

\* getValue: atomic load of the value word.
getValue(ar, nd) == Deref(ar, nd).value

\* A store into one field of a node.
SetField(ar, nd, fld, v) ==
  [ar EXCEPT !.nodes[getNodeOffset(nd)] = [@ EXCEPT ![fld] = v]]

\* A store into tower[h] of a node.
SetTower(ar, nd, h, off) ==
  [ar EXCEPT !.nodes[getNodeOffset(nd)].tower[h] = off]

\* newNodeMmap, first half: arena.putNode(height).
newNodeAlloc(ar, height) ==
  LET r == putNode(ar, height) IN [node |-> getNode(r.off), a |-> r.a]

\* newNodeMmap, second half: arena.putKey(key) and the stores into the fields.
newNodeFill(ar, nd, key, uid, height) ==
  LET r == putKey(ar, key)
  IN  [r.a EXCEPT !.nodes[getNodeOffset(nd)] =
         [@ EXCEPT !.keyOffset = r.off, !.keySize = Len(key) % 65536,
                   !.height = height % 65536, !.value = uid]]

\* newNodeMmap.
newNodeMmap(ar, key, uid, height) ==
  LET r == newNodeAlloc(ar, height)
  IN  [node |-> r.node, a |-> newNodeFill(r.a, r.node, key, uid, height)]

\* NewSkiplistMmap: the struct and the arena holding the head.
NewSkiplistMmap ==
  LET r == newNodeMmap(newArenaMmap, <<>>, Zero64, maxHeight)
  IN  [s |-> [height |-> 1, head |-> r.node, arena |-> 1, ref |-> 1], a |-> r.a]


(***************************************************************************)
(* Search.                                                                 *)
(***************************************************************************)
\* getHeight: atomic load of s.height.
getHeight(sk) == sk.height

\* findNearIter taking any node with the empty key for the head.
findNearIterHeadByKey(sk, ar, key, less, allowEqual, x, level) ==
  LET next == getNext(ar, x, level)
      ret(nd, e) == [done |-> TRUE, n |-> nd, eq |-> e, x |-> x, level |-> level]
      cont(nx, lv) == [done |-> FALSE, n |-> NilPtr, eq |-> FALSE, x |-> nx, level |-> lv]
      retX == IF keyMmap(ar, x) = <<>> THEN ret(NilPtr, FALSE) ELSE ret(x, FALSE)
  IN  IF next = NilPtr
        THEN IF level > 0 THEN cont(x, level - 1)
             ELSE IF ~less THEN ret(NilPtr, FALSE)
             ELSE retX
        ELSE LET cmp == Compare(key, keyMmap(ar, next))
             IN  IF cmp > 0 THEN cont(next, level)
                 ELSE IF cmp = 0
                   THEN IF allowEqual THEN ret(next, TRUE)
                        ELSE IF ~less THEN ret(getNext(ar, next, 0), FALSE)
                        ELSE IF level > 0 THEN cont(x, level - 1)
                        ELSE retX
                 ELSE IF level > 0 THEN cont(x, level - 1)
                 ELSE IF ~less THEN ret(next, FALSE)
                 ELSE retX

\* One pass of findNear's loop, from node x at a level: either the result
\* (done, with the node n and the equality flag eq) or where the next pass starts.
findNearIter(sk, ar, key, less, allowEqual, x, level) ==
  LET next == getNext(ar, x, level)
      ret(nd, e) == [done |-> TRUE, n |-> nd, eq |-> e, x |-> x, level |-> level]
      cont(nx, lv) == [done |-> FALSE, n |-> NilPtr, eq |-> FALSE, x |-> nx, level |-> lv]
      retX == IF x = sk.head THEN ret(NilPtr, FALSE) ELSE ret(x, FALSE)
  IN  IF next = NilPtr
        THEN IF level > 0 THEN cont(x, level - 1)
             ELSE IF ~less THEN ret(NilPtr, FALSE)
             ELSE retX
        ELSE LET cmp == Compare(key, keyMmap(ar, next))
             IN  IF cmp > 0 THEN cont(next, level)
                 ELSE IF cmp = 0
                   THEN IF allowEqual THEN ret(next, TRUE)
                        ELSE IF ~less THEN ret(getNext(ar, next, 0), FALSE)
                        ELSE IF level > 0 THEN cont(x, level - 1)
                        ELSE retX
                 ELSE IF level > 0 THEN cont(x, level - 1)
                 ELSE IF ~less THEN ret(next, FALSE)
                 ELSE retX

RECURSIVE findNearFrom(_, _, _, _, _, _, _)
findNearFrom(sk, ar, key, less, allowEqual, x, level) ==
  LET r == findNearIter(sk, ar, key, less, allowEqual, x, level)
  IN  IF r.done THEN r ELSE findNearFrom(sk, ar, key, less, allowEqual, r.x, r.level)

\* findNear, run on a list no one else changes.
findNear(sk, ar, key, less, allowEqual) ==
  findNearFrom(sk, ar, key, less, allowEqual, sk.head, getHeight(sk) - 1)

\* findSpliceIter without the equality case: an equal key counts as a larger one.
findSpliceIterNoEqual(ar, key, before, level) ==
  LET next == getNext(ar, before, level)
  IN  IF next = NilPtr
        THEN [done |-> TRUE, before |-> before, next |-> next]
        ELSE LET cmp == Compare(key, keyMmap(ar, next))
             IN  IF cmp <= 0 THEN [done |-> TRUE, before |-> before, next |-> next]
                 ELSE [done |-> FALSE, before |-> next, next |-> NilPtr]

\* One pass of findSpliceForLevel's loop.
findSpliceIter(ar, key, before, level) ==
  LET next == getNext(ar, before, level)
  IN  IF next = NilPtr
        THEN [done |-> TRUE, before |-> before, next |-> next]
        ELSE LET cmp == Compare(key, keyMmap(ar, next))
             IN  IF cmp = 0 THEN [done |-> TRUE, before |-> next, next |-> next]
                 ELSE IF cmp < 0 THEN [done |-> TRUE, before |-> before, next |-> next]
                 ELSE [done |-> FALSE, before |-> next, next |-> NilPtr]

RECURSIVE findSpliceForLevel(_, _, _, _)
findSpliceForLevel(ar, key, before, level) ==
  LET r == findSpliceIter(ar, key, before, level)
  IN  IF r.done THEN r ELSE findSpliceForLevel(ar, key, r.before, level)

\* One pass of findLast's loop.
findLastIter(sk, ar, n, level) ==
  LET next == getNext(ar, n, level)
  IN  IF next # NilPtr THEN [done |-> FALSE, n |-> next, level |-> level]
      ELSE IF level = 0
        THEN [done |-> TRUE, n |-> IF n = sk.head THEN NilPtr ELSE n, level |-> level]
      ELSE [done |-> FALSE, n |-> n, level |-> level - 1]

RECURSIVE findLastFrom(_, _, _, _)
findLastFrom(sk, ar, n, level) ==
  LET r == findLastIter(sk, ar, n, level)
  IN  IF r.done THEN r.n ELSE findLastFrom(sk, ar, r.n, r.level)

\* findLast, run on a list no one else changes.
findLast(sk, ar) == findLastFrom(sk, ar, sk.head, getHeight(sk) - 1)

\* Empty.
Empty(sk, ar) == findLast(sk, ar) = NilPtr

\* MemSize: arena.size(), the cursor.
MemSize(ar) == ar.n

\* randomHeight: h starts at 1 and grows while h < maxHeight and the draw of
\* z.FastRand allows: any height from 1 to maxHeight.
randomHeight == 1..maxHeight

(***************************************************************************)
(* Put, one step at a time.  The locals l of a call: pc (where it is),     *)
(* key, uid, listHeight, prev, next, i, height, x as in the code; before   *)
(* (where findSpliceForLevel stands), target (the node an overwrite stores *)
(* into).  A step returns the memory and the locals after it.  pre and     *)
(* must are no locals of the code: they record what had returned when the  *)
(* call started; adv is how far the steps of the call have moved the arena *)
(* cursor.                                                                 *)
(***************************************************************************)
\* var prev, next [maxHeight + 1]*node
NilArray == [j \in 0..maxHeight |-> NilPtr]

Locals(op, key, uid) ==
  [pc |-> op, op |-> op, key |-> key, uid |-> uid, listHeight |-> 0,
   prev |-> NilArray, next |-> NilArray, i |-> 0, height |-> 0, x |-> NilPtr,
   before |-> NilPtr, target |-> NilPtr, level |-> 0, n |-> NilPtr, ret |-> Zero64,
   pre |-> {}, must |-> FALSE, adv |-> 0]

Res(sk, ar, l) == [s |-> sk, a |-> ar, l |-> l]

\* A return drops the frame; x, height, target and ret stay for the record.
Return(l) ==
  [l EXCEPT !.pc = "done", !.listHeight = 0, !.prev = NilArray, !.next = NilArray,
            !.i = 0, !.before = NilPtr, !.level = 0, !.n = NilPtr]

\* y.AssertTrue failed.
Panic(l) == [Return(l) EXCEPT !.pc = "panic"]

\* PutEnter without prev[listHeight] = s.head.
PutEnterNoHead(sk, ar, l) ==
  LET lh == getHeight(sk)
  IN  Res(sk, ar, [l EXCEPT !.pc = "descend", !.listHeight = lh,
                            !.prev = NilArray,
                            !.next = NilArray, !.i = lh - 1, !.before = sk.head])

\* Lines 232-236: the height is read, prev[listHeight] = head.
PutEnter(sk, ar, l) ==
  LET lh == getHeight(sk)
  IN  Res(sk, ar, [l EXCEPT !.pc = "descend", !.listHeight = lh,
                            !.prev = [NilArray EXCEPT ![lh] = sk.head],
                            !.next = NilArray, !.i = lh - 1, !.before = sk.head])

\* PutDescend without the overwrite: a key found is inserted again.
PutDescendNoOverwrite(sk, ar, l) ==
  LET r == findSpliceIter(ar, l.key, l.before, l.i)
      l1 == [l EXCEPT !.prev[l.i] = r.before, !.next[l.i] = r.next]
  IN  IF ~r.done THEN Res(sk, ar, [l EXCEPT !.before = r.before])
      ELSE IF l.i > 0
        THEN Res(sk, ar, [l1 EXCEPT !.i = l.i - 1, !.before = r.before])
      ELSE Res(sk, ar, [l1 EXCEPT !.pc = "alloc"])

\* PutDescend creating the node before it knows whether the key is there: an
\* overwrite reserves a node of height 1 first.
PutDescendAllocFirst(sk, ar, l) ==
  LET r == findSpliceIter(ar, l.key, l.before, l.i)
      l1 == [l EXCEPT !.prev[l.i] = r.before, !.next[l.i] = r.next]
  IN  IF ~r.done THEN Res(sk, ar, [l EXCEPT !.before = r.before])
      ELSE IF r.before = r.next
        THEN Res(sk, newNodeAlloc(ar, 1).a, [l1 EXCEPT !.pc = "store", !.target = r.before])
      ELSE IF l.i > 0
        THEN Res(sk, ar, [l1 EXCEPT !.i = l.i - 1, !.before = r.before])
      ELSE Res(sk, ar, [l1 EXCEPT !.pc = "alloc"])

\* Lines 237-245: one pass of findSpliceForLevel(key, prev[i+1], i); at its end
\* equality goes to the overwrite, else the next level down or the insertion.
PutDescend(sk, ar, l) ==
  LET r == findSpliceIter(ar, l.key, l.before, l.i)
      l1 == [l EXCEPT !.prev[l.i] = r.before, !.next[l.i] = r.next]
  IN  IF ~r.done THEN Res(sk, ar, [l EXCEPT !.before = r.before])
      ELSE IF r.before = r.next
        THEN Res(sk, ar, [l1 EXCEPT !.pc = "store", !.target = r.before])
      ELSE IF l.i > 0
        THEN Res(sk, ar, [l1 EXCEPT !.i = l.i - 1, !.before = r.before])
      ELSE Res(sk, ar, [l1 EXCEPT !.pc = "alloc"])

\* Lines 242 and 286: prev[i].value = uid, a plain store of a uint64.  It races
\* with the stores of other Puts and with getValue's atomic load; where a uint64
\* is two machine words the store is two stores, in either order.
PutStore(sk, ar, l, tear) ==
  LET old == getValue(ar, l.target)
  IN  CASE tear = "whole" ->
             Res(sk, SetField(ar, l.target, "value", l.uid), Return(l))
        [] tear = "lohi" ->
             Res(sk, SetField(ar, l.target, "value", <<old[1], l.uid[2]>>),
                 [l EXCEPT !.pc = "storeHi"])
        [] tear = "hilo" ->
             Res(sk, SetField(ar, l.target, "value", <<l.uid[1], old[2]>>),
                 [l EXCEPT !.pc = "storeLo"])

\* The second word of a two-word store.
PutStoreRest(sk, ar, l) ==
  LET old == getValue(ar, l.target)
      new == IF l.pc = "storeHi" THEN <<l.uid[1], old[2]>> ELSE <<old[1], l.uid[2]>>
  IN  Res(sk, SetField(ar, l.target, "value", new), Return(l))

\* Lines 248-249: randomHeight and arena.putNode inside newNodeMmap.
PutAlloc(sk, ar, l, h) ==
  LET r == newNodeAlloc(ar, h)
  IN  Res(sk, r.a, [l EXCEPT !.pc = "fill", !.height = h, !.x = r.node])

\* Line 249: the rest of newNodeMmap.
PutFill(sk, ar, l) ==
  Res(sk, newNodeFill(ar, l.x, l.key, l.uid, l.height), [l EXCEPT !.pc = "loadHeight"])

\* PutLoadHeight starting the insertion at level 1 when the node has one.
PutLoadHeightSkipBase(sk, ar, l) ==
  LET lh == getHeight(sk)
      i0 == IF l.height > 1 THEN 1 ELSE 0
  IN  IF l.height > lh
        THEN Res(sk, ar, [l EXCEPT !.listHeight = lh, !.pc = "casHeight"])
        ELSE Res(sk, ar, [l EXCEPT !.listHeight = lh, !.pc = "link", !.i = i0])

\* Lines 252-253 and 258: the height is read again and compared.
PutLoadHeight(sk, ar, l) ==
  LET lh == getHeight(sk)
  IN  IF l.height > lh
        THEN Res(sk, ar, [l EXCEPT !.listHeight = lh, !.pc = "casHeight"])
        ELSE Res(sk, ar, [l EXCEPT !.listHeight = lh, !.pc = "link", !.i = 0])

\* PutCasHeight going on without raising the height.
PutCasHeightNoRaise(sk, ar, l) ==
  Res(sk, ar, [l EXCEPT !.pc = "link", !.i = 0])

\* PutCasHeight trying again with the height it read before, after a failed CAS.
PutCasHeightNoReload(sk, ar, l) ==
  IF sk.height = l.listHeight
    THEN Res([sk EXCEPT !.height = l.height], ar, [l EXCEPT !.pc = "link", !.i = 0])
    ELSE Res(sk, ar, l)

\* Line 254: CompareAndSwapInt32(&s.height, listHeight, height).
PutCasHeight(sk, ar, l) ==
  IF sk.height = l.listHeight
    THEN Res([sk EXCEPT !.height = l.height], ar, [l EXCEPT !.pc = "link", !.i = 0])
    ELSE Res(sk, ar, [l EXCEPT !.pc = "loadHeight"])

\* PutLink without the store of next[i]'s offset into x.tower[i].
PutLinkNoNext(sk, ar, l) ==
  IF l.prev[l.i] = NilPtr
    THEN IF ~(l.i > 1) THEN Res(sk, ar, Panic(l))
         ELSE Res(sk, ar, [l EXCEPT !.pc = "spliceHead", !.before = sk.head])
    ELSE Res(sk, ar, [l EXCEPT !.pc = "cas"])

\* Lines 265-275 at level i: a level with no prev yet is searched from the head,
\* else x.tower[i] is set to the offset of next[i].
PutLink(sk, ar, l) ==
  IF l.prev[l.i] = NilPtr
    THEN IF ~(l.i > 1) THEN Res(sk, ar, Panic(l))
         ELSE Res(sk, ar, [l EXCEPT !.pc = "spliceHead", !.before = sk.head])
    ELSE Res(sk, SetTower(ar, l.x, l.i, getNodeOffset(l.next[l.i])),
             [l EXCEPT !.pc = "cas"])

\* Lines 269-275: one pass of findSpliceForLevel(key, head, i); equality fails
\* the assertion.
PutSpliceHead(sk, ar, l) ==
  LET r == findSpliceIter(ar, l.key, l.before, l.i)
      l1 == [l EXCEPT !.prev[l.i] = r.before, !.next[l.i] = r.next]
  IN  IF ~r.done THEN Res(sk, ar, [l EXCEPT !.before = r.before])
      ELSE IF r.before = r.next THEN Res(sk, ar, Panic(l1))
      ELSE Res(sk, SetTower(ar, l.x, l.i, getNodeOffset(r.next)),
               [l1 EXCEPT !.pc = "cas"])

\* PutCas storing the offset of x without comparing.
PutCasNoCompare(sk, ar, l) ==
  LET pv == l.prev[l.i]
  IN  IF l.i + 1 < l.height
        THEN Res(sk, SetTower(ar, pv, l.i, getNodeOffset(l.x)),
                 [l EXCEPT !.pc = "link", !.i = l.i + 1])
        ELSE Res(sk, SetTower(ar, pv, l.i, getNodeOffset(l.x)), Return(l))

\* PutCas going one level too far: i <= height for i < height.
PutCasOneLevelMore(sk, ar, l) ==
  LET pv == l.prev[l.i]
      nextOffset == getNodeOffset(l.next[l.i])
  IN  IF getNextOffset(ar, pv, l.i) = nextOffset
        THEN IF l.i + 1 <= l.height
               THEN Res(sk, SetTower(ar, pv, l.i, getNodeOffset(l.x)),
                        [l EXCEPT !.pc = "link", !.i = l.i + 1])
               ELSE Res(sk, SetTower(ar, pv, l.i, getNodeOffset(l.x)), Return(l))
        ELSE Res(sk, ar, [l EXCEPT !.pc = "spliceRetry", !.before = pv])

\* Lines 276-279: prev[i].casNextOffset(i, nextOffset, offset of x); on success
\* the next level, or the return after the last one.
PutCas(sk, ar, l) ==
  LET pv == l.prev[l.i]
      nextOffset == getNodeOffset(l.next[l.i])
  IN  IF getNextOffset(ar, pv, l.i) = nextOffset
        THEN IF l.i + 1 < l.height
               THEN Res(sk, SetTower(ar, pv, l.i, getNodeOffset(l.x)),
                        [l EXCEPT !.pc = "link", !.i = l.i + 1])
               ELSE Res(sk, SetTower(ar, pv, l.i, getNodeOffset(l.x)), Return(l))
        ELSE Res(sk, ar, [l EXCEPT !.pc = "spliceRetry", !.before = pv])

\* PutSpliceRetry leaving x.tower[i] as the first attempt set it.
PutSpliceRetryKeepNext(sk, ar, l) ==
  LET r == findSpliceIter(ar, l.key, l.before, l.i)
      l1 == [l EXCEPT !.prev[l.i] = r.before, !.next[l.i] = r.next]
  IN  IF ~r.done THEN Res(sk, ar, [l EXCEPT !.before = r.before])
      ELSE IF r.before = r.next
        THEN IF l.i = 0
               THEN Res(sk, ar, [l1 EXCEPT !.pc = "store", !.target = r.before])
               ELSE Res(sk, ar, Panic(l1))
      ELSE Res(sk, ar, [l1 EXCEPT !.pc = "cas"])

\* Lines 283-289: one pass of findSpliceForLevel(key, prev[i], i) after a failed
\* CAS; equality is an overwrite at level 0 and a failed assertion above it.
PutSpliceRetry(sk, ar, l) ==
  LET r == findSpliceIter(ar, l.key, l.before, l.i)
      l1 == [l EXCEPT !.prev[l.i] = r.before, !.next[l.i] = r.next]
  IN  IF ~r.done THEN Res(sk, ar, [l EXCEPT !.before = r.before])
      ELSE IF r.before = r.next
        THEN IF l.i = 0
               THEN Res(sk, ar, [l1 EXCEPT !.pc = "store", !.target = r.before])
               ELSE Res(sk, ar, Panic(l1))
      ELSE Res(sk, SetTower(ar, l.x, l.i, getNodeOffset(r.next)),
               [l1 EXCEPT !.pc = "cas"])

(***************************************************************************)
(* Get, one step at a time.                                                *)
(***************************************************************************)
\* Lines 131-132: findNear starts at the head, at the top level.
GetEnter(sk, ar, l) ==
  Res(sk, ar, [l EXCEPT !.pc = "near", !.n = sk.head, !.level = getHeight(sk) - 1])

\* GetNear without the comparison of the key found with the key asked for.
GetNearNoKeyCheck(sk, ar, l) ==
  LET r == findNearIter(sk, ar, l.key, FALSE, TRUE, l.n, l.level)
  IN  IF ~r.done THEN Res(sk, ar, [l EXCEPT !.n = r.x, !.level = r.level])
      ELSE IF r.n = NilPtr THEN Res(sk, ar, [Return(l) EXCEPT !.ret = Zero64])
      ELSE Res(sk, ar, [l EXCEPT !.pc = "value", !.n = r.n])

\* Lines 323-331: one pass of findNear(key, false, true); at its end no node or
\* another key returns 0.
GetNear(sk, ar, l) ==
  LET r == findNearIter(sk, ar, l.key, FALSE, TRUE, l.n, l.level)
  IN  IF ~r.done THEN Res(sk, ar, [l EXCEPT !.n = r.x, !.level = r.level])
      ELSE IF r.n = NilPtr THEN Res(sk, ar, [Return(l) EXCEPT !.ret = Zero64])
      ELSE IF getKey(ar, Deref(ar, r.n).keyOffset, Deref(ar, r.n).keySize) # l.key
        THEN Res(sk, ar, [Return(l) EXCEPT !.ret = Zero64])
      ELSE Res(sk, ar, [l EXCEPT !.pc = "value", !.n = r.n])

\* Line 333: n.getValue().
GetValue(sk, ar, l) ==
  Res(sk, ar, [Return(l) EXCEPT !.ret = getValue(ar, l.n)])

\* The step of a call that stands at l.pc; h is the height randomHeight draws,
\* tear how the plain store of the value is carried out.
Step(sk, ar, l, h, tear) ==
  CASE l.pc = "Put" -> PutEnter(sk, ar, l)
    [] l.pc = "descend" -> PutDescend(sk, ar, l)
    [] l.pc = "store" -> PutStore(sk, ar, l, tear)
    [] l.pc \in {"storeHi", "storeLo"} -> PutStoreRest(sk, ar, l)
    [] l.pc = "alloc" -> PutAlloc(sk, ar, l, h)
    [] l.pc = "fill" -> PutFill(sk, ar, l)
    [] l.pc = "loadHeight" -> PutLoadHeight(sk, ar, l)
    [] l.pc = "casHeight" -> PutCasHeight(sk, ar, l)
    [] l.pc = "link" -> PutLink(sk, ar, l)
    [] l.pc = "spliceHead" -> PutSpliceHead(sk, ar, l)
    [] l.pc = "cas" -> PutCas(sk, ar, l)
    [] l.pc = "spliceRetry" -> PutSpliceRetry(sk, ar, l)
    [] l.pc = "Get" -> GetEnter(sk, ar, l)
    [] l.pc = "near" -> GetNear(sk, ar, l)
    [] l.pc = "value" -> GetValue(sk, ar, l)

\* How a plain two-word store is carried out.
Tears == {"whole", "lohi", "hilo"}

\* Every outcome of the step of a call that stands at l.pc.
Steps(sk, ar, l) ==
  {Step(sk, ar, l, h, tear) :
     h \in (IF l.pc = "alloc" THEN randomHeight ELSE {1}),
     tear \in (IF l.pc = "store" THEN Tears ELSE {"whole"})}

RECURSIVE Run(_, _, _)
\* Every outcome of a call run to its return with no other goroutine in between.
Run(sk, ar, l) ==
  IF l.pc \in {"done", "panic"} THEN {Res(sk, ar, l)}
  ELSE UNION {Run(r.s, r.a, r.l) : r \in Steps(sk, ar, l)}

\* Put(key, uid) on a list no one else uses.
Put(sk, ar, key, uid) == Run(sk, ar, Locals("Put", key, uid))

\* Get(key) on a list no one else uses: the value returned.
Get(sk, ar, key) ==
  LET r == CHOOSE r \in Run(sk, ar, Locals("Get", key, Zero64)) : TRUE IN r.l.ret

(***************************************************************************)
(* Reference count and iterators.                                          *)
(***************************************************************************)
\* IncrRef: atomic.AddInt32(&s.ref, 1).
IncrRef(sk) == [sk EXCEPT !.ref = @ + 1]

\* DecrRef returning early one reference too soon.
DecrRefAddOffByOne(sk) ==
  LET newRef == sk.ref - 1
  IN  [s |-> [sk EXCEPT !.ref = newRef], newRef |-> newRef, return |-> newRef > 1]

\* DecrRef, lines 58-61: atomic.AddInt32(&s.ref, -1), and the return when
\* references are left.
DecrRefAdd(sk) ==
  LET newRef == sk.ref - 1
  IN  [s |-> [sk EXCEPT !.ref = newRef], newRef |-> newRef, return |-> newRef > 0]

\* arena.reset(): the arena is released.
reset(ar) == [ar EXCEPT !.released = TRUE]

\* DecrRef, lines 63-69: s.arena.reset(), s.arena = nil, s.head = nil.
DecrRefReset(sk, ar) ==
  [s |-> [sk EXCEPT !.arena = NilPtr, !.head = NilPtr], a |-> reset(ar)]

\* NewIterator: IncrRef, and an iterator on the list at no node.
NewIterator(sk) == [s |-> IncrRef(sk), it |-> [list |-> 1, n |-> NilPtr]]

\* Valid.
Valid(i) == i.n # NilPtr

\* Key: the key of the current node.
Key(ar, i) == getKey(ar, Deref(ar, i.n).keyOffset, Deref(ar, i.n).keySize)

\* Value: the value of the current node.
Value(ar, i) == getValue(ar, i.n)

\* Next, past its assertion: s.n = getNext(s.n, 0).
Next(ar, i) == [i EXCEPT !.n = getNext(ar, i.n, 0)]

\* Prev searching for <= instead of <.
PrevAllowEqual(sk, ar, i) == [i EXCEPT !.n = findNear(sk, ar, Key(ar, i), TRUE, TRUE).n]

\* Prev, past its assertion: findNear(Key(), true, false).
Prev(sk, ar, i) == [i EXCEPT !.n = findNear(sk, ar, Key(ar, i), TRUE, FALSE).n]

\* Seek: findNear(target, false, true).
Seek(sk, ar, i, target) == [i EXCEPT !.n = findNear(sk, ar, target, FALSE, TRUE).n]

\* SeekForPrev searching for < instead of <=.
SeekForPrevStrict(sk, ar, i, target) ==
  [i EXCEPT !.n = findNear(sk, ar, target, TRUE, FALSE).n]

\* SeekForPrev: findNear(target, true, true).
SeekForPrev(sk, ar, i, target) == [i EXCEPT !.n = findNear(sk, ar, target, TRUE, TRUE).n]

\* SeekToFirst: getNext(head, 0).
SeekToFirst(sk, ar, i) == [i EXCEPT !.n = getNext(ar, sk.head, 0)]

\* SeekToLast: findLast().
SeekToLast(sk, ar, i) == [i EXCEPT !.n = findLast(sk, ar)]

(***************************************************************************)
(* One caller running whole operations, one after the other.               *)
(*   SeqSpec   Puts of several values;                                     *)
(*   IterSpec  Puts, and the calls of one iterator.                        *)
(* hist records the last call: op and arg; for a Put, old (the value the   *)
(* key had) and rep (the call before was the same Put); for Next and Prev, *)
(* from (the key the iterator stood at, <<>> when it stood at none) and    *)
(* pop, parg (the call before); walk is the keys seen since SeekToFirst    *)
(* while only Next was called.                                             *)
(***************************************************************************)
\* The keys of the model: the empty key, a longer key and a larger shorter one.
Keys == {<<>>, <<1, 1>>, <<2>>}

\* The targets of Seek and SeekForPrev: the keys, one between two and one past all.
Targets == Keys \cup {<<1>>, <<3>>}

\* The values the sequential caller puts (none is 0).
Values == {<<0, 1>>, <<1, 2>>}

NoCall ==
  [op |-> "none", arg |-> <<>>, old |-> Zero64, rep |-> FALSE, pop |-> "none",
   parg |-> <<>>, from |-> <<>>, walking |-> FALSE, walk |-> <<>>]

Call(op, arg) == [NoCall EXCEPT !.op = op, !.arg = arg]

\* The goroutines, the reference holders and their records play no part here.
Idle == <<>>

SeqInit ==
  LET l == NewSkiplistMmap
      r == NewIterator(l.s)
  IN  /\ s = r.s
      /\ a = l.a
      /\ it = r.it
      /\ hist = NoCall
      /\ model = [k \in Keys |-> Zero64]
      /\ failed = FALSE
      /\ thr = Idle /\ fin = {} /\ obs = {}
      /\ iters = Idle /\ creator = "held" /\ resets = [n |-> 0, open |-> FALSE]

NodeCount(ar) == Cardinality(DOMAIN ar.nodes) - 1

\* Put(k, v) by the caller, for a value of vals.
PutOf(vals) ==
  \E k \in Keys, v \in vals :
    /\ ~failed
    /\ model[k] # Zero64 \/ NodeCount(a) < MaxSeqNodes
    /\ \E r \in Put(s, a, k, v) :
         /\ s' = r.s
         /\ a' = r.a
         /\ failed' = (r.l.pc = "panic")
    /\ model' = [model EXCEPT ![k] = v]
    /\ hist' = [Call("Put", <<k, v>>) EXCEPT
                  !.old = model[k],
                  !.rep = (hist.op = "Put" /\ hist.arg = <<k, v>>)]
    /\ UNCHANGED <<it, thr, fin, obs, iters, creator, resets>>

SeqPut == PutOf(Values)

IterPut == PutOf({<<0, 1>>})

\* What an iterator call leaves behind: the new position and the record of the call.
Moved(i, h) ==
  /\ ~failed
  /\ it' = i
  /\ hist' = h
  /\ UNCHANGED <<s, a, model, failed, thr, fin, obs, iters, creator, resets>>

\* y.AssertTrue(s.Valid()) fails in Next or Prev: the process ends.
AssertFails(op) ==
  /\ ~failed
  /\ failed' = TRUE
  /\ hist' = [Call(op, <<>>) EXCEPT !.pop = hist.op, !.parg = hist.arg]
  /\ UNCHANGED <<s, a, it, model, thr, fin, obs, iters, creator, resets>>

\* The record of a Next or Prev from a valid position.
Step2(op) ==
  [Call(op, <<>>) EXCEPT !.pop = hist.op, !.parg = hist.arg, !.from = <<Key(a, it)>>]

\* Next without its assertion: a call at no node leaves the iterator there.
ItNextNoAssert ==
  IF Valid(it)
    THEN LET i == Next(a, it)
         IN  Moved(i, [Step2("Next") EXCEPT
                         !.walking = hist.walking,
                         !.walk = IF hist.walking /\ Valid(i)
                                    THEN Append(hist.walk, Key(a, i)) ELSE hist.walk])
    ELSE Moved(it, [Call("Next", <<>>) EXCEPT !.pop = hist.op, !.parg = hist.arg])

\* IteratorMmap.Next: the assertion, then the move.
ItNext ==
  IF Valid(it)
    THEN LET i == Next(a, it)
         IN  Moved(i, [Step2("Next") EXCEPT
                         !.walking = hist.walking,
                         !.walk = IF hist.walking /\ Valid(i)
                                    THEN Append(hist.walk, Key(a, i)) ELSE hist.walk])
    ELSE AssertFails("Next")

ItPrev ==
  IF Valid(it) THEN Moved(Prev(s, a, it), Step2("Prev")) ELSE AssertFails("Prev")

ItSeek == \E t \in Targets : Moved(Seek(s, a, it, t), Call("Seek", <<t>>))

ItSeekForPrev ==
  \E t \in Targets : Moved(SeekForPrev(s, a, it, t), Call("SeekForPrev", <<t>>))

ItSeekToFirst ==
  LET i == SeekToFirst(s, a, it)
  IN  Moved(i, [Call("SeekToFirst", <<>>) EXCEPT
                  !.walking = TRUE,
                  !.walk = IF Valid(i) THEN <<Key(a, i)>> ELSE <<>>])

ItSeekToLast == Moved(SeekToLast(s, a, it), Call("SeekToLast", <<>>))

\* UniIteratorMmap.Next.
UniNext == \E reversed \in BOOLEAN : IF ~reversed THEN ItNext ELSE ItPrev

\* UniIteratorMmap.Rewind.
UniRewind == \E reversed \in BOOLEAN : IF ~reversed THEN ItSeekToFirst ELSE ItSeekToLast

\* UniIteratorMmap.Seek.
UniSeek == \E reversed \in BOOLEAN : IF ~reversed THEN ItSeek ELSE ItSeekForPrev

SeqNext == SeqPut

SeqSpec == SeqInit /\ [][SeqNext]_vars

IterNext ==
  \/ IterPut
  \/ ItNext \/ ItPrev \/ ItSeek \/ ItSeekForPrev \/ ItSeekToFirst \/ ItSeekToLast
  \/ UniNext \/ UniRewind \/ UniSeek

IterSpec == SeqInit /\ [][IterNext]_vars

(***************************************************************************)
(* The claims about one caller.                                            *)
(***************************************************************************)
RECURSIVE ByteLess(_, _)
\* x is before y in byte-lexicographic order.
ByteLess(x, y) ==
  IF y = <<>> THEN FALSE
  ELSE IF x = <<>> THEN TRUE
  ELSE IF Head(x) # Head(y) THEN Head(x) < Head(y)
  ELSE ByteLess(Tail(x), Tail(y))

\* The keys that were Put.
Present == {k \in Keys : model[k] # Zero64}

Smallest(S) == CHOOSE k \in S : \A j \in S : j = k \/ ByteLess(k, j)

Largest(S) == CHOOSE k \in S : \A j \in S : j = k \/ ByteLess(j, k)

\* The iterator stands at the smallest key of S, at no node when S is empty.
AtSmallest(S) ==
  IF S = {} THEN ~Valid(it) ELSE Valid(it) /\ Key(a, it) = Smallest(S)

\* The iterator stands at the largest key of S, at no node when S is empty.
AtLargest(S) ==
  IF S = {} THEN ~Valid(it) ELSE Valid(it) /\ Key(a, it) = Largest(S)

\* C1: after any sequence of sequential Puts of non-zero values, with any tower
\* heights, Get(k) is the value of the last Put on k for every key that was Put
\* and 0 for every key that was never Put.
C1_GetReturnsLastPut ==
  \A k \in Targets : Get(s, a, k) = (IF k \in Keys THEN model[k] ELSE Zero64)

\* A Put has overwritten another value, and a key was never Put.
C1_Witness ==
  /\ hist.op = "Put"
  /\ hist.old \notin {Zero64, hist.arg[2]}
  /\ Get(s, a, hist.arg[1]) = hist.arg[2]
  /\ \E k \in Keys : model[k] = Zero64 /\ Get(s, a, k) = Zero64
  /\ NodeCount(a) >= 2

\* C7: a sequential Put(k, v) right after Put(k, v) changes nothing: no node is
\* created, the arena cursor, every tower link and the height stay as they are.
C7_SecondPutChangesNothing ==
  [][(hist'.op = "Put" /\ hist'.rep) => (a' = a /\ s' = s /\ MemSize(a') = MemSize(a))]_vars

\* The same Put was called twice in a row, on a list of several nodes.
C7_Witness ==
  /\ hist.op = "Put" /\ hist.rep
  /\ Get(s, a, hist.arg[1]) = hist.arg[2]
  /\ NodeCount(a) >= 2

\* C4: after sequential Puts, SeekToFirst and Next until the iterator is at no
\* node visit exactly the keys that were Put, each once, in strictly increasing
\* byte-lexicographic order.
C4_WalkVisitsKeysInOrder ==
  hist.walking =>
    /\ \A i, j \in 1..Len(hist.walk) : i < j => ByteLess(hist.walk[i], hist.walk[j])
    /\ {hist.walk[i] : i \in 1..Len(hist.walk)} \subseteq Present
    /\ ~Valid(it) => {hist.walk[i] : i \in 1..Len(hist.walk)} = Present

\* A walk over three keys has come to its end.
C4_Witness ==
  /\ hist.walking /\ hist.op = "Next" /\ ~Valid(it)
  /\ Len(hist.walk) = Cardinality(Keys)

\* C5: on a quiescent list Seek(t) stands at the smallest key >= t, SeekForPrev(t)
\* at the largest key <= t, SeekToFirst at the smallest and SeekToLast at the
\* largest key, at no node exactly when there is no such key; never at the head.
C5_SeekPositions ==
  /\ it.n # s.head
  /\ hist.op = "Seek" => AtSmallest({k \in Present : ~ByteLess(k, hist.arg[1])})
  /\ hist.op = "SeekForPrev" => AtLargest({k \in Present : ~ByteLess(hist.arg[1], k)})
  /\ hist.op = "SeekToFirst" => AtSmallest(Present)
  /\ hist.op = "SeekToLast" => AtLargest(Present)

\* The empty key is stored, and SeekForPrev of a key before every other key
\* stands at it, not at the head (whose key is empty too).
C5_Witness ==
  /\ hist.op = "SeekForPrev" /\ hist.arg = << <<1>> >>
  /\ Present = Keys
  /\ Valid(it) /\ Key(a, it) = <<>> /\ it.n # s.head

\* SeekForPrev(k) then Next() was called, for a key k that is stored and not the largest.
C8_Case ==
  /\ hist.op = "Next" /\ hist.pop = "SeekForPrev"
  /\ hist.parg[1] \in Present
  /\ hist.parg[1] # Largest(Present)

\* C8 as claimed: after SeekForPrev(k) and Next(), for k stored and not the
\* largest key, the iterator is valid and its key is k.
C8_Original ==
  C8_Case => (~failed /\ Valid(it) /\ Key(a, it) = hist.parg[1])

\* C8 as amended: after SeekForPrev(k) and Next(), for k stored and not the
\* largest key, the iterator is valid and its key is the smallest stored key
\* strictly greater than k.
C8_NextAfterSeekForPrev ==
  C8_Case =>
    /\ ~failed
    /\ AtSmallest({k \in Present : ByteLess(hist.parg[1], k)})
    /\ Valid(it)

\* The case has happened, and the iterator has left k.
C8_Witness ==
  C8_Case /\ Valid(it) /\ Key(a, it) # hist.parg[1] /\ Cardinality(Present) = 3

\* C9: Prev() from a valid position at key c stands at the largest stored key
\* strictly less than c; after Seek(k) and Prev(), for k stored and not the
\* smallest key, the iterator is valid.
C9_PrevFindsPredecessor ==
  /\ (hist.op = "Prev" /\ hist.from # <<>>) =>
        (~failed /\ AtLargest({k \in Present : ByteLess(k, hist.from[1])}))
  /\ (hist.op = "Prev" /\ hist.pop = "Seek" /\ hist.parg[1] \in Present
        /\ hist.parg[1] # Smallest(Present)) =>
        (~failed /\ Valid(it) /\ hist.from = hist.parg
           /\ Key(a, it) = Largest({k \in Present : ByteLess(k, hist.parg[1])}))

\* Seek(k) then Prev() was called for the largest of three keys.
C9_Witness ==
  /\ hist.op = "Prev" /\ hist.pop = "Seek"
  /\ Cardinality(Present) = 3
  /\ hist.parg[1] = Largest(Present)
  /\ Valid(it) /\ Key(a, it) = <<1, 1>>

\* Next or Prev was called on an iterator at no node.
C10_CalledInvalid == hist.op \in {"Next", "Prev"} /\ hist.from = <<>>

\* Next from the largest key and Prev from the smallest leave the iterator at no node.
C10_PastTheEnds ==
  /\ (hist.op = "Next" /\ Present # {} /\ hist.from = <<Largest(Present)>>) => ~Valid(it)
  /\ (hist.op = "Prev" /\ Present # {} /\ hist.from = <<Smallest(Present)>>) => ~Valid(it)

\* C10 as claimed: Next from the largest key and Prev from the smallest leave the
\* iterator invalid, and a further Next or Prev leaves it invalid without failing.
C10_Original ==
  /\ C10_PastTheEnds
  /\ C10_CalledInvalid => (~Valid(it) /\ ~failed)

\* C10 as amended: Next from the largest key and Prev from the smallest leave the
\* iterator invalid; a further Next or Prev on the invalid iterator fails its
\* assertion (y.AssertTrue(s.Valid())) and the position stays at no node.
C10_InvalidStaysInvalid ==
  /\ C10_PastTheEnds
  /\ C10_CalledInvalid => (~Valid(it) /\ failed)
  /\ failed => C10_CalledInvalid

\* A walk went past the largest key, and Next was called once more.
C10_Witness ==
  /\ C10_CalledInvalid /\ failed
  /\ hist.op = "Next" /\ hist.pop = "Next"
  /\ Present # {} /\ ~Valid(it)

(***************************************************************************)
(* RefSpec: the creator and the iterators it and their holders hand out,   *)
(* each holding one reference and releasing it once.  A DecrRef is two     *)
(* steps: the atomic add, and the reset by the caller that saw no          *)
(* reference left.  iters[j] is where iterator j is (none, open, closing:  *)
(* inside Close before the reset, closed), what it is (uni, reversed) and  *)
(* the newRef its DecrRef saw; creator the same for the first reference.   *)
(* resets counts the calls of arena.reset() and keeps whether an iterator  *)
(* was open at one and the newRef of the caller.                           *)
(***************************************************************************)
IterIds == 1..MaxIters

NoIter == [st |-> "none", uni |-> FALSE, reversed |-> FALSE, newRef |-> 0]

RefInit ==
  LET l == NewSkiplistMmap
  IN  /\ s = l.s
      /\ a = l.a
      /\ iters = [j \in IterIds |-> NoIter]
      /\ creator = [st |-> "held", newRef |-> 0]
      /\ resets = [n |-> 0, open |-> FALSE, newRef |-> 0]
      /\ failed = FALSE
      /\ it = [list |-> NilPtr, n |-> NilPtr]
      /\ hist = NoCall
      /\ model = [k \in Keys |-> Zero64]
      /\ thr = Idle /\ fin = {} /\ obs = {}

OpenIters == {j \in IterIds : iters[j].st = "open"}

\* The caller of NewIterator holds a reference: the creator's, or an open iterator's.
HoldsReference == creator.st = "held" \/ OpenIters # {}

RefFrame == UNCHANGED <<it, hist, model, thr, fin, obs>>

\* NewIterator() by a holder of a reference.
RefNewIterator ==
  \E j \in IterIds :
    /\ ~failed /\ HoldsReference
    /\ iters[j].st = "none"
    /\ s' = NewIterator(s).s
    /\ iters' = [iters EXCEPT ![j] = [NoIter EXCEPT !.st = "open"]]
    /\ UNCHANGED <<a, creator, resets, failed>>
    /\ RefFrame

\* NewUniIterator(reversed) by a holder of a reference: NewIterator inside.
RefNewUniIterator ==
  \E j \in IterIds, reversed \in BOOLEAN :
    /\ ~failed /\ HoldsReference
    /\ iters[j].st = "none"
    /\ s' = NewIterator(s).s
    /\ iters' = [iters EXCEPT ![j] = [NoIter EXCEPT !.st = "open", !.uni = TRUE,
                                                  !.reversed = reversed]]
    /\ UNCHANGED <<a, creator, resets, failed>>
    /\ RefFrame

\* Close() of an iterator (of either kind): DecrRef up to its early return.
RefClose ==
  \E j \in IterIds :
    /\ ~failed
    /\ iters[j].st = "open"
    /\ LET r == DecrRefAdd(s)
       IN  /\ s' = r.s
           /\ iters' = [iters EXCEPT ![j].st = IF r.return THEN "closed" ELSE "closing",
                                     ![j].newRef = r.newRef]
    /\ UNCHANGED <<a, creator, resets, failed>>
    /\ RefFrame

\* The rest of DecrRef by a caller that saw newRef: a nil s.arena fails, else
\* the arena is reset.
Reset(newRef) ==
  IF s.arena = NilPtr
    THEN failed' = TRUE /\ UNCHANGED <<s, a, resets>>
    ELSE LET r == DecrRefReset(s, a)
         IN  /\ s' = r.s
             /\ a' = r.a
             /\ resets' = [n |-> resets.n + 1,
                           open |-> resets.open \/ OpenIters # {},
                           newRef |-> newRef]
             /\ UNCHANGED failed

\* Close() of an iterator, after DecrRef saw no reference left.
RefCloseReset ==
  \E j \in IterIds :
    /\ ~failed
    /\ iters[j].st = "closing"
    /\ Reset(iters[j].newRef)
    /\ iters' = [iters EXCEPT ![j].st = "closed"]
    /\ UNCHANGED creator
    /\ RefFrame

\* DecrRef() by the creator, up to its early return.
RefDecrRef ==
  /\ ~failed
  /\ creator.st = "held"
  /\ LET r == DecrRefAdd(s)
     IN  /\ s' = r.s
         /\ creator' = [st |-> IF r.return THEN "released" ELSE "releasing",
                        newRef |-> r.newRef]
  /\ UNCHANGED <<a, iters, resets, failed>>
  /\ RefFrame

\* DecrRef() by the creator, after it saw no reference left.
RefDecrRefReset ==
  /\ ~failed
  /\ creator.st = "releasing"
  /\ Reset(creator.newRef)
  /\ creator' = [creator EXCEPT !.st = "released"]
  /\ UNCHANGED iters
  /\ RefFrame

RefNext ==
  \/ RefNewIterator \/ RefNewUniIterator
  \/ RefClose \/ RefCloseReset
  \/ RefDecrRef \/ RefDecrRefReset

RefSpec == RefInit /\ [][RefNext]_vars

\* Every reference handed out has been released.
AllReleased ==
  /\ creator.st = "released"
  /\ \A j \in IterIds : iters[j].st \in {"none", "closed"}

\* C6: when the creator's reference and each iterator's reference are released
\* once, the arena is reset once, by the DecrRef that took the count from 1 to
\* 0, and never while an iterator is unclosed, in whatever order the iterators
\* are created and closed.
C6_ResetOnceAtLastRelease ==
  /\ ~failed
  /\ resets.n <= 1
  /\ a.released <=> resets.n = 1
  /\ resets.n = 1 => (~resets.open /\ resets.newRef = 0 /\ s.ref = 0)
  /\ OpenIters # {} => ~a.released
  /\ AllReleased => (resets.n = 1 /\ s.arena = NilPtr /\ s.head = NilPtr)

\* All iterators were handed out, the creator released first, and the last
\* Close reset the arena.
C6_Witness ==
  /\ AllReleased
  /\ \A j \in IterIds : iters[j].st = "closed"
  /\ creator.newRef > 0
  /\ \E j \in IterIds : iters[j].uni /\ iters[j].newRef = 0
  /\ resets.n = 1 /\ a.released

(***************************************************************************)
(* StraySpec: RefSpec, and one more caller of DecrRef that holds no         *)
(* reference.  Its DecrRef is three steps: the atomic add, s.arena.reset() *)
(* and the two stores of nil.  thr is where that caller is (none,          *)
(* resetting: past the add, clearing: past the reset, returned, failed)    *)
(* and the newRef it saw.                                                  *)
(***************************************************************************)
StrayInit ==
  LET l == NewSkiplistMmap
  IN  /\ s = l.s
      /\ a = l.a
      /\ iters = [j \in IterIds |-> NoIter]
      /\ creator = [st |-> "held", newRef |-> 0]
      /\ resets = [n |-> 0, open |-> FALSE, newRef |-> 0]
      /\ failed = FALSE
      /\ it = [list |-> NilPtr, n |-> NilPtr]
      /\ hist = NoCall
      /\ model = [k \in Keys |-> Zero64]
      /\ thr = [st |-> "none", newRef |-> 0]
      /\ fin = {} /\ obs = {}

\* DecrRef, lines 66-69: s.arena = nil, s.head = nil.
DecrRefClear(sk) == [sk EXCEPT !.arena = NilPtr, !.head = NilPtr]

\* DecrRef() by a caller with no reference, lines 58-61.
StrayDecrRef ==
  /\ ~failed
  /\ thr.st = "none"
  /\ LET r == DecrRefAdd(s)
     IN  /\ s' = r.s
         /\ thr' = [st |-> IF r.return THEN "returned" ELSE "resetting",
                    newRef |-> r.newRef]
  /\ UNCHANGED <<a, it, hist, model, failed, fin, obs, iters, creator, resets>>

\* Line 63 of that call: s.arena.reset(); on a nil s.arena the call fails.
StrayReset ==
  /\ ~failed
  /\ thr.st = "resetting"
  /\ IF s.arena = NilPtr
       THEN /\ failed' = TRUE
            /\ thr' = [thr EXCEPT !.st = "failed"]
            /\ UNCHANGED <<a, resets>>
       ELSE /\ a' = reset(a)
            /\ resets' = [n |-> resets.n + 1,
                          open |-> resets.open \/ OpenIters # {},
                          newRef |-> thr.newRef]
            /\ thr' = [thr EXCEPT !.st = "clearing"]
            /\ UNCHANGED failed
  /\ UNCHANGED <<s, it, hist, model, fin, obs, iters, creator>>

\* Lines 66-69 of that call, and its return.
StrayClear ==
  /\ ~failed
  /\ thr.st = "clearing"
  /\ s' = DecrRefClear(s)
  /\ thr' = [thr EXCEPT !.st = "returned"]
  /\ UNCHANGED <<a, it, hist, model, failed, fin, obs, iters, creator, resets>>

StrayNext ==
  \/ RefNewIterator \/ RefNewUniIterator
  \/ RefClose \/ RefCloseReset
  \/ RefDecrRef \/ RefDecrRefReset
  \/ StrayDecrRef \/ StrayReset \/ StrayClear

StraySpec == StrayInit /\ [][StrayNext]_vars

\* The calls of DecrRef that took the count below zero and went on past the
\* add without failing: the stray caller's, the creator's, an iterator's Close.
WentOnBelowZero ==
  \/ thr.newRef < 0 /\ thr.st \in {"clearing", "returned"}
  \/ creator.newRef < 0 /\ creator.st = "released"
  \/ \E j \in IterIds : iters[j].newRef < 0 /\ iters[j].st = "closed"

\* C12: a DecrRef that takes the count below zero fails: it neither resets the
\* arena nor returns, so the arena is not reset twice and no call that has
\* returned leaves a negative count.
C12_Original ==
  /\ ~WentOnBelowZero
  /\ resets.n <= 1

(***************************************************************************)
(* Spec: goroutines run their programs, sequences of Puts and Gets, on a   *)
(* fresh list; any goroutine that has a step takes it.  A call starts with *)
(* its first step and returns with its last.  The Put of goroutine g at    *)
(* index j, named <<g, j>>, puts a value of its own, Uid(g, j).            *)
(***************************************************************************)
Goroutines == {1, 2}

\* The keys the goroutines use.
CKeys == {<<1, 1>>, <<2>>}

Calls == [op : {"Put", "Get"}, key : CKeys]

\* The first goroutine runs MaxOps calls, every other one call less.
ProgLen(g) == IF g = 1 THEN MaxOps ELSE MaxOps - 1

Programs(g) == [1..ProgLen(g) -> Calls]

\* The value of the Put <<g, j>>: both words differ from those of every other Put.
Uid(g, j) == <<(g - 1) * MaxOps + j, (g - 1) * MaxOps + j>>

Init ==
  LET l == NewSkiplistMmap
  IN  /\ s = l.s
      /\ a = l.a
      /\ \E progs \in [Goroutines -> UNION {Programs(g) : g \in Goroutines}] :
           /\ \A g \in Goroutines : progs[g] \in Programs(g)
           /\ thr = [g \in Goroutines |->
                       [prog |-> progs[g], ip |-> 0, l |-> Locals("idle", <<>>, Zero64)]]
      /\ fin = {} /\ obs = {}
      /\ failed = FALSE
      /\ it = [list |-> NilPtr, n |-> NilPtr]
      /\ hist = NoCall
      /\ model = [k \in Keys |-> Zero64]
      /\ iters = Idle /\ creator = "held" /\ resets = [n |-> 0, open |-> FALSE]

\* The Puts on key k of all programs.
PutsOn(k) ==
  {p \in Goroutines \X (1..MaxOps) :
     /\ p[2] <= Len(thr[p[1]].prog)
     /\ thr[p[1]].prog[p[2]] = [op |-> "Put", key |-> k]}

\* Goroutine g is between two calls and has a call left.
CanCall(g, op) ==
  /\ thr[g].l.pc \in {"idle", "done"}
  /\ thr[g].ip < Len(thr[g].prog)
  /\ thr[g].prog[thr[g].ip + 1].op = op

\* The locals of the call goroutine g starts: a Put notes the Puts on its key
\* that have returned, a Get whether one has and which values are overwritten.
StartCall(g) ==
  LET j == thr[g].ip + 1
      c == thr[g].prog[j]
  IN  IF c.op = "Put"
        THEN [Locals("Put", c.key, Uid(g, j)) EXCEPT !.pre = fin \cap PutsOn(c.key)]
        ELSE [Locals("Get", c.key, Zero64) EXCEPT
                !.pre = obs \cap PutsOn(c.key),
                !.must = (fin \cap PutsOn(c.key) # {})]

\* What a step of goroutine g leaves behind, from the locals l it started with.
Took(g, l, starts) ==
  /\ ~failed
  /\ \E r \in Steps(s, a, l) :
       /\ s' = r.s
       /\ a' = r.a
       /\ thr' = [thr EXCEPT ![g].l = [r.l EXCEPT !.adv = l.adv + (MemSize(r.a) - MemSize(a))],
                             ![g].ip = IF starts THEN @ + 1 ELSE @]
       /\ failed' = (r.l.pc = "panic")
       /\ IF r.l.pc = "done" /\ r.l.op = "Put"
            THEN /\ fin' = fin \cup {<<g, thr'[g].ip>>}
                 /\ obs' = obs \cup r.l.pre
            ELSE UNCHANGED <<fin, obs>>
  /\ UNCHANGED <<it, hist, model, iters, creator, resets>>


GoPut == \E g \in Goroutines : CanCall(g, "Put") /\ Took(g, StartCall(g), TRUE)

GoPutDescend == \E g \in Goroutines : thr[g].l.pc \in {"descend"} /\ Took(g, thr[g].l, FALSE)

GoPutStore == \E g \in Goroutines : thr[g].l.pc \in {"store"} /\ Took(g, thr[g].l, FALSE)

GoPutStoreRest == \E g \in Goroutines : thr[g].l.pc \in {"storeHi", "storeLo"} /\ Took(g, thr[g].l, FALSE)

GoPutAlloc == \E g \in Goroutines : thr[g].l.pc \in {"alloc"} /\ Took(g, thr[g].l, FALSE)

GoPutFill == \E g \in Goroutines : thr[g].l.pc \in {"fill"} /\ Took(g, thr[g].l, FALSE)

GoPutLoadHeight == \E g \in Goroutines : thr[g].l.pc \in {"loadHeight"} /\ Took(g, thr[g].l, FALSE)

GoPutCasHeight == \E g \in Goroutines : thr[g].l.pc \in {"casHeight"} /\ Took(g, thr[g].l, FALSE)

GoPutLink == \E g \in Goroutines : thr[g].l.pc \in {"link"} /\ Took(g, thr[g].l, FALSE)

GoPutSpliceHead == \E g \in Goroutines : thr[g].l.pc \in {"spliceHead"} /\ Took(g, thr[g].l, FALSE)

GoPutCas == \E g \in Goroutines : thr[g].l.pc \in {"cas"} /\ Took(g, thr[g].l, FALSE)

GoPutSpliceRetry == \E g \in Goroutines : thr[g].l.pc \in {"spliceRetry"} /\ Took(g, thr[g].l, FALSE)

GoGet == \E g \in Goroutines : CanCall(g, "Get") /\ Took(g, StartCall(g), TRUE)

GoGetNear == \E g \in Goroutines : thr[g].l.pc \in {"near"} /\ Took(g, thr[g].l, FALSE)

GoGetValue == \E g \in Goroutines : thr[g].l.pc \in {"value"} /\ Took(g, thr[g].l, FALSE)

ConcNext ==
  \/ GoPut \/ GoPutDescend \/ GoPutStore \/ GoPutStoreRest
  \/ GoPutAlloc \/ GoPutFill \/ GoPutLoadHeight \/ GoPutCasHeight
  \/ GoPutLink \/ GoPutSpliceHead \/ GoPutCas \/ GoPutSpliceRetry
  \/ GoGet \/ GoGetNear \/ GoGetValue

Spec == Init /\ [][ConcNext]_vars

(***************************************************************************)
(* The claims about goroutines.                                            *)
(***************************************************************************)
RECURSIVE Chain(_, _, _)
\* The nodes from nd on along a level.
Chain(ar, nd, level) ==
  IF nd = NilPtr THEN {} ELSE {nd} \cup Chain(ar, getNext(ar, nd, level), level)

\* The nodes reachable from the head at a level.
Reach(level) == Chain(a, getNext(a, s.head, level), level)

\* Every call of every program has returned.
AllReturned ==
  \A g \in Goroutines : thr[g].ip = Len(thr[g].prog) /\ thr[g].l.pc = "done"

\* The Puts on k that are the last Put on k of their goroutine: the Puts that
\* are last in some serial order that keeps every goroutine's program order.
LastPuts(k) ==
  {p \in PutsOn(k) : \A q \in PutsOn(k) : q[1] = p[1] => q[2] <= p[2]}

\* C2: once all Puts of all goroutines have returned, every key that was Put is
\* reachable at level 0 and holds the value of a Put on it that is last in some
\* serial order consistent with program order: no key is lost, and no value
\* appears that was never Put for that key.
C2_Original ==
  AllReturned =>
    \A k \in CKeys : PutsOn(k) # {} =>
      /\ \E nd \in Reach(0) : keyMmap(a, nd) = k
      /\ \A nd \in Reach(0) : keyMmap(a, nd) = k =>
           getValue(a, nd) \in {Uid(p[1], p[2]) : p \in LastPuts(k)}

\* C3: a Get(k) that starts after a Put(k, v) has returned yields v or the value
\* of another Put on k that did not return before that Put started: never 0,
\* never a value overwritten before that Put started, never any other value.
C3_Original ==
  \A g \in Goroutines :
    (thr[g].l.op = "Get" /\ thr[g].l.pc = "done" /\ thr[g].l.must) =>
      thr[g].l.ret \in {Uid(p[1], p[2]) : p \in PutsOn(thr[g].l.key) \ thr[g].l.pre}

\* The levels of a tower of full height.
Levels == 0..(maxHeight - 1)

RECURSIVE Walk(_, _, _, _)
\* The nodes from nd on along a level, in order, at most fuel of them.
Walk(ar, nd, level, fuel) ==
  IF nd = NilPtr \/ fuel = 0 THEN <<>>
  ELSE <<nd>> \o Walk(ar, getNext(ar, nd, level), level, fuel - 1)

\* The chain that starts at head.tower[level]: one node more than the arena
\* holds besides the head shows a chain that does not end.
HeadChain(sk, ar, level) == Walk(ar, getNext(ar, sk.head, level), level, NodeCount(ar) + 1)

\* The nodes linked at a level.
Linked(sk, ar, level) ==
  LET w == HeadChain(sk, ar, level) IN {w[j] : j \in 1..Len(w)}

\* Goroutine g's last call is a Put that has returned.
PutDone(g) == thr[g].l.op = "Put" /\ thr[g].l.pc = "done"

\* C11: under any interleaving of Puts the height of the list is between 1 and
\* maxHeight and never decreases, and every node linked at any level has a tower
\* no higher than the height of the list.
C11_HeightBoundsEveryLinkedNode ==
  /\ [](/\ s.height \in 1..maxHeight
        /\ \A L \in Levels : \A nd \in Linked(s, a, L) :
             /\ Deref(a, nd).height <= s.height
             /\ L < Deref(a, nd).height)
  /\ [][s'.height >= s.height]_vars

\* The height was raised twice, a goroutine lost the CAS on it once, and nodes
\* of two heights are linked.
C11_Witness ==
  /\ s.height = maxHeight
  /\ Linked(s, a, maxHeight - 1) # {}
  /\ \E nd \in Linked(s, a, 0) : Deref(a, nd).height < maxHeight /\ Deref(a, nd).height > 1
  /\ AllReturned

\* C13 as claimed: a Put that ends by storing its value into a node that holds
\* the key has not moved the arena cursor.
C13_Original ==
  \A g \in Goroutines :
    (PutDone(g) /\ thr[g].l.target # NilPtr) => thr[g].l.adv = 0

\* C13 as amended: a Put that finds the key during its descent creates no node
\* and does not move the arena cursor; a Put that finds the key on the retry
\* after a failed CAS at level 0 has created its node before (the cursor moved
\* by the node's header, its tower, its key and the alignment), and that node is
\* linked at no level.
C13_OverwriteAllocatesOnlyOnRetry ==
  \A g \in Goroutines :
    LET l == thr[g].l
    IN  (PutDone(g) /\ l.target # NilPtr) =>
          /\ keyMmap(a, l.target) = l.key
          /\ IF l.height = 0
               THEN l.adv = 0 /\ l.x = NilPtr
               ELSE /\ l.x # NilPtr /\ l.x # l.target
                    /\ l.adv >= NodeHeaderSize + l.height * OffsetSize + Len(l.key)
                    /\ l.adv < NodeHeaderSize + l.height * OffsetSize + Len(l.key) + NodeAlign
                    /\ \A L \in Levels : l.x \notin Linked(s, a, L)

\* One Put found its key during the descent, another on the retry.
C13_Witness ==
  \E g, h \in Goroutines :
    /\ PutDone(g) /\ thr[g].l.target # NilPtr /\ thr[g].l.height = 0 /\ thr[g].l.adv = 0
    /\ PutDone(h) /\ thr[h].l.target # NilPtr /\ thr[h].l.height > 1 /\ thr[h].l.adv > 0

\* C14: under any interleaving of Puts, at every level the chain from the head
\* ends at the null offset and its keys are strictly increasing; no two linked
\* nodes have the same key.
C14_ChainsStrictlyIncreasing ==
  /\ \A L \in Levels :
       LET w == HeadChain(s, a, L)
       IN  /\ Len(w) <= NodeCount(a)
           /\ \A j \in 1..(Len(w) - 1) : ByteLess(keyMmap(a, w[j]), keyMmap(a, w[j + 1]))
  /\ \A L, M \in Levels : \A nd \in Linked(s, a, L), md \in Linked(s, a, M) :
       keyMmap(a, nd) = keyMmap(a, md) => nd = md

\* Two Puts raced to insert the same key: one node is linked, the other is not,
\* and the chain at level 0 holds both keys.
C14_Witness ==
  /\ AllReturned
  /\ \E g, h \in Goroutines :
       /\ g # h /\ PutDone(g) /\ PutDone(h) /\ thr[g].l.key = thr[h].l.key
       /\ thr[g].l.x # NilPtr /\ thr[g].l.target = NilPtr
       /\ thr[h].l.x # NilPtr /\ thr[h].l.target = thr[g].l.x
  /\ Len(HeadChain(s, a, 0)) = 2
  /\ Len(HeadChain(s, a, 1)) >= 1

\* C15: under any interleaving of Puts, a node linked at a level above 0 is
\* linked at every level below.
C15_LinkedBelow ==
  \A L \in Levels : L > 0 => Linked(s, a, L) \subseteq Linked(s, a, L - 1)

\* A Put stands between two levels: its node is linked at level 0 and not yet
\* at level 1, under a node of another goroutine linked at both.
C15_Witness ==
  \E g \in Goroutines :
    /\ thr[g].l.pc = "cas" /\ thr[g].l.i = 1
    /\ thr[g].l.x \in Linked(s, a, 0) /\ thr[g].l.x \notin Linked(s, a, 1)
    /\ Linked(s, a, 1) # {}

\* C17: under any interleaving of Puts no assertion of Put fails: a level with
\* no prev has an index above 1, the splice searched from the head for it has no
\* node with the key, and the splice searched again after a failed CAS has a
\* node with the key at level 0 only.
C17_NoAssertionFails ==
  /\ ~failed
  /\ \A g \in Goroutines :
       LET l == thr[g].l
           r == findSpliceIter(a, l.key, l.before, l.i)
       IN  /\ l.pc # "panic"
           /\ (l.pc = "link" /\ l.prev[l.i] = NilPtr) => l.i > 1
           /\ (l.pc = "spliceHead" /\ r.done) => r.before # r.next
           /\ (l.pc = "spliceRetry" /\ r.done /\ r.before = r.next) => l.i = 0

\* Two goroutines have put the same new key with towers of different heights:
\* one searched its top level from the head, the other found the key on its retry.
C17_Witness ==
  \E g, h \in Goroutines :
    /\ PutDone(g) /\ PutDone(h) /\ thr[g].l.key = thr[h].l.key
    /\ thr[g].l.height = maxHeight /\ thr[g].l.target = NilPtr
    /\ thr[g].l.x \in Linked(s, a, maxHeight - 1)
    /\ thr[h].l.height \in 1..(maxHeight - 1) /\ thr[h].l.target = thr[g].l.x

\* The fields of a node that Put initialises before it links the node, and the
\* bytes of its key, are the same in two arenas.
SameKeyAndHeight(ar, br, nd) ==
  /\ Deref(br, nd).keyOffset = Deref(ar, nd).keyOffset
  /\ Deref(br, nd).keySize = Deref(ar, nd).keySize
  /\ Deref(br, nd).height = Deref(ar, nd).height
  /\ keyMmap(br, nd) = keyMmap(ar, nd)

\* C18 as claimed: no step changes, on a node linked at level 0, the key, the
\* key's offset and size, the height, or a tower slot at a level at which the
\* node is linked.
C18_Original ==
  [][\A nd \in Linked(s, a, 0) :
       /\ SameKeyAndHeight(a, a', nd)
       /\ \A L \in 0..(Deref(a, nd).height - 1) :
            nd \in Linked(s, a, L) => getNextOffset(a', nd, L) = getNextOffset(a, nd, L)]_vars

\* The slot tower[L] of the linked node nd changes from old to new in a step:
\* a node not linked at L before is linked right behind nd, with nd's old
\* successor as its own, its key between theirs, and linked at the level below.
LinksBehind(nd, L, old, new) ==
  LET y == getNode(new)
  IN  /\ new # 0
      /\ y \notin Linked(s, a, L) /\ y \in Linked(s', a', L)
      /\ getNextOffset(a', y, L) = old
      /\ ByteLess(keyMmap(a, nd), keyMmap(a, y))
      /\ old # 0 => ByteLess(keyMmap(a, y), keyMmap(a, getNode(old)))
      /\ L > 0 => y \in Linked(s, a, L - 1)
      /\ \E g \in Goroutines : thr[g].l.x = y /\ thr[g].l.pc = "cas" /\ thr[g].l.i = L

\* C18 as amended: once a node is linked at level 0 no step changes its key, the
\* key's offset and size or its height; a tower slot at a level at which it is
\* not linked yet is written by the Put that created it only; a tower slot at a
\* level at which it is linked changes only by the CAS of a Put that links a new
\* node right behind it at that level.
C18_PublishedNodeChanges ==
  [][\A nd \in Linked(s, a, 0) :
       /\ SameKeyAndHeight(a, a', nd)
       /\ \A L \in 0..(Deref(a, nd).height - 1) :
            LET old == getNextOffset(a, nd, L)
                new == getNextOffset(a', nd, L)
            IN  old # new =>
                  IF nd \in Linked(s, a, L)
                    THEN LinksBehind(nd, L, old, new)
                    ELSE \E g \in Goroutines :
                           /\ thr[g].l.x = nd /\ thr[g].l.i = L
                           /\ thr'[g] # thr[g]]_vars

\* Goroutine 1 has put the smaller key and then the larger one: the second Put
\* changed tower[0] of the first one's node, linked since the first returned;
\* goroutine 2 has written the value of that node.
C18_Witness ==
  /\ AllReturned
  /\ thr[1].prog = <<[op |-> "Put", key |-> <<1, 1>>], [op |-> "Put", key |-> <<2>>]>>
  /\ thr[2].prog = <<[op |-> "Put", key |-> <<1, 1>>]>>
  /\ thr[2].l.x = NilPtr /\ thr[2].l.target # NilPtr
  /\ getNext(a, thr[2].l.target, 0) = thr[1].l.x
  /\ thr[1].l.height = maxHeight /\ Deref(a, thr[2].l.target).height = maxHeight
  /\ getValue(a, thr[2].l.target) = Uid(2, 1)

(***************************************************************************)
(* WalkSpec: the goroutines of Spec run programs of Puts, and one more     *)
(* caller walks an iterator forward while they do: SeekToFirst once, then  *)
(* Next while the iterator is valid.  Each call of the iterator is one     *)
(* load of a tower slot.  hist.walk is the keys the walk has seen; model   *)
(* is the set of keys whose Put had returned when the walk started.        *)
(***************************************************************************)
\* The programs of Puts: every goroutine runs one call less than MaxOps.
PutPrograms ==
  {pr \in [1..(MaxOps - 1) -> Calls] : \A j \in 1..Len(pr) : pr[j].op = "Put"}

WalkInit ==
  LET l == NewSkiplistMmap
      r == NewIterator(l.s)
  IN  /\ s = r.s
      /\ a = l.a
      /\ it = r.it
      /\ \E progs \in [Goroutines -> PutPrograms] :
           thr = [g \in Goroutines |->
                    [prog |-> progs[g], ip |-> 0, l |-> Locals("idle", <<>>, Zero64)]]
      /\ fin = {} /\ obs = {}
      /\ failed = FALSE
      /\ hist = NoCall
      /\ model = {}
      /\ iters = Idle /\ creator = "held" /\ resets = [n |-> 0, open |-> FALSE]

\* SeekToFirst by the walker: the walk starts.
WalkSeekToFirst ==
  /\ ~failed
  /\ hist.op = "none"
  /\ LET i == SeekToFirst(s, a, it)
     IN  /\ it' = i
         /\ hist' = [Call("SeekToFirst", <<>>) EXCEPT
                       !.walking = TRUE,
                       !.walk = IF Valid(i) THEN <<Key(a, i)>> ELSE <<>>]
  /\ model' = {thr[p[1]].prog[p[2]].key : p \in fin}
  /\ UNCHANGED <<s, a, thr, failed, fin, obs, iters, creator, resets>>

\* Next by the walker, from a valid position.
WalkStep ==
  /\ ~failed
  /\ hist.walking /\ Valid(it)
  /\ LET i == Next(a, it)
     IN  /\ it' = i
         /\ hist' = [Step2("Next") EXCEPT
                       !.walking = TRUE,
                       !.walk = IF Valid(i) THEN Append(hist.walk, Key(a, i)) ELSE hist.walk]
  /\ UNCHANGED <<s, a, thr, model, failed, fin, obs, iters, creator, resets>>

WalkNext ==
  \/ GoPut \/ GoPutDescend \/ GoPutStore \/ GoPutStoreRest
  \/ GoPutAlloc \/ GoPutFill \/ GoPutLoadHeight \/ GoPutCasHeight
  \/ GoPutLink \/ GoPutSpliceHead \/ GoPutCas \/ GoPutSpliceRetry
  \/ WalkSeekToFirst \/ WalkStep

WalkSpec == WalkInit /\ [][WalkNext]_vars

\* The keys the walk has seen.
WalkKeys == {hist.walk[j] : j \in 1..Len(hist.walk)}

\* C16: a walk by SeekToFirst and Next that runs while goroutines Put sees
\* strictly increasing keys, stands only at nodes that are linked at level 0
\* (never at the head), and once at its end has seen every key whose Put had
\* returned when it started.
C16_WalkDuringPuts ==
  /\ Valid(it) => (it.n \in Linked(s, a, 0) /\ it.n # s.head)
  /\ hist.walking =>
       /\ \A i, j \in 1..Len(hist.walk) : i < j => ByteLess(hist.walk[i], hist.walk[j])
       /\ WalkKeys \subseteq {keyMmap(a, nd) : nd \in Linked(s, a, 0)}
       /\ Valid(it) => (hist.walk # <<>> /\ Key(a, it) = hist.walk[Len(hist.walk)])
       /\ ~Valid(it) => model \subseteq WalkKeys

\* A walk that started after one Put had returned and while another was under
\* way has come to its end, with the key of the second seen too; both goroutines
\* have put.
C16_Witness ==
  /\ hist.walking /\ hist.op = "Next" /\ ~Valid(it)
  /\ Cardinality(model) = 1
  /\ Cardinality(WalkKeys) = 2
  /\ \A g \in Goroutines : thr[g].l.x # NilPtr

(***************************************************************************)
(* ReadSpec: the goroutines run programs of Puts, and a reader runs the    *)
(* calls that read the list, one after the other and one load of a tower   *)
(* slot at a time: Seek and SeekForPrev of a key, Prev and Next of a valid *)
(* iterator, SeekToFirst, SeekToLast and Empty.                            *)
(* iters is the reader's call: pc (idle, find: inside findNear, last:      *)
(* inside findLast), op, key, and n and level as in findNear and findLast. *)
(* it is the reader's iterator; a seek overwrites its position whatever it *)
(* is, and the reader seeks from no node.                                  *)
(***************************************************************************)
\* The reader between two calls.
ReaderIdle == [pc |-> "idle", op |-> "none", key |-> <<>>, n |-> NilPtr, level |-> 0]

ReadInit ==
  LET l == NewSkiplistMmap
      r == NewIterator(l.s)
  IN  /\ s = r.s
      /\ a = l.a
      /\ it = r.it
      /\ iters = ReaderIdle
      /\ \E progs \in [Goroutines -> PutPrograms] :
           thr = [g \in Goroutines |->
                    [prog |-> progs[g], ip |-> 0, l |-> Locals("idle", <<>>, Zero64)]]
      /\ fin = {} /\ obs = {}
      /\ failed = FALSE
      /\ hist = NoCall
      /\ model = {}
      /\ creator = "held" /\ resets = [n |-> 0, open |-> FALSE]

\* The arguments less and allowEqual of the findNear a call makes.
FindLess(op) == op \in {"SeekForPrev", "Prev"}

FindAllowEqual(op) == op \in {"Seek", "SeekForPrev"}

\* What a step of the reader leaves behind: its call and its iterator.
Read(c, i) ==
  /\ ~failed
  /\ iters' = c
  /\ it' = i
  /\ UNCHANGED <<s, a, thr, hist, model, failed, fin, obs, creator, resets>>

\* Lines 131-132 and 302-303: a search starts at the head, at the top level.
ReadEnter(pc, op, key) ==
  [pc |-> pc, op |-> op, key |-> key, n |-> s.head, level |-> getHeight(s) - 1]

\* Seek(target): findNear(target, false, true) starts.
ReadSeek ==
  \E t \in CKeys :
    iters.pc = "idle" /\ ~Valid(it) /\ Read(ReadEnter("find", "Seek", t), it)

\* SeekForPrev(target): findNear(target, true, true) starts.
ReadSeekForPrev ==
  \E t \in CKeys :
    iters.pc = "idle" /\ ~Valid(it) /\ Read(ReadEnter("find", "SeekForPrev", t), it)

\* Prev() of a valid iterator: findNear(Key(), true, false) starts.
ReadPrev ==
  iters.pc = "idle" /\ Valid(it) /\ Read(ReadEnter("find", "Prev", Key(a, it)), it)

\* One pass of findNear's loop; at its end the iterator stands at the node found.
ReadFind ==
  /\ iters.pc = "find"
  /\ LET r == findNearIter(s, a, iters.key, FindLess(iters.op), FindAllowEqual(iters.op),
                           iters.n, iters.level)
     IN  IF r.done THEN Read(ReaderIdle, [it EXCEPT !.n = r.n])
         ELSE Read([iters EXCEPT !.n = r.x, !.level = r.level], it)

\* SeekToLast(): findLast starts.
ReadSeekToLast ==
  iters.pc = "idle" /\ ~Valid(it) /\ Read(ReadEnter("last", "SeekToLast", <<>>), it)

\* Empty(): findLast starts.
ReadEmpty ==
  iters.pc = "idle" /\ ~Valid(it) /\ Read(ReadEnter("last", "Empty", <<>>), it)

\* One pass of findLast's loop; at its end SeekToLast moves the iterator.
ReadLast ==
  /\ iters.pc = "last"
  /\ LET r == findLastIter(s, a, iters.n, iters.level)
     IN  IF r.done
           THEN Read(ReaderIdle, IF iters.op = "SeekToLast" THEN [it EXCEPT !.n = r.n] ELSE it)
           ELSE Read([iters EXCEPT !.n = r.n, !.level = r.level], it)

\* SeekToFirst().
ReadSeekToFirst ==
  iters.pc = "idle" /\ ~Valid(it) /\ Read(iters, SeekToFirst(s, a, it))

\* Next() of a valid iterator.
ReadNext == iters.pc = "idle" /\ Valid(it) /\ Read(iters, Next(a, it))

ReadNextStep ==
  \/ GoPut \/ GoPutDescend \/ GoPutStore \/ GoPutStoreRest
  \/ GoPutAlloc \/ GoPutFill \/ GoPutLoadHeight \/ GoPutCasHeight
  \/ GoPutLink \/ GoPutSpliceHead \/ GoPutCas \/ GoPutSpliceRetry
  \/ ReadSeek \/ ReadSeekForPrev \/ ReadPrev \/ ReadFind
  \/ ReadSeekToLast \/ ReadEmpty \/ ReadLast
  \/ ReadSeekToFirst \/ ReadNext

ReadSpec == ReadInit /\ [][ReadNextStep]_vars

\* The tower slots, as <<node, level>>, one pass of findNear's loop loads: line
\* 135, and line 168 when it is reached.
FindAccess(ar, key, less, allowEqual, x, level) ==
  LET next == getNext(ar, x, level)
  IN  {<<x, level>>} \cup
      (IF next # NilPtr /\ Compare(key, keyMmap(ar, next)) = 0 /\ ~allowEqual /\ ~less
         THEN {<<next, 0>>} ELSE {})

\* The tower slots the next step of the call with locals l loads, stores or
\* swaps: line 205 inside findSpliceForLevel, line 275 (x.tower[i]), line 276
\* (the CAS on prev[i]), and findNear inside Get.
CallAccess(ar, l) ==
  CASE l.pc = "descend" -> {<<l.before, l.i>>}
    [] l.pc \in {"spliceHead", "spliceRetry"} ->
         LET r == findSpliceIter(ar, l.key, l.before, l.i)
         IN  {<<l.before, l.i>>} \cup
             (IF r.done /\ r.before # r.next THEN {<<l.x, l.i>>} ELSE {})
    [] l.pc = "link" -> IF l.prev[l.i] = NilPtr THEN {} ELSE {<<l.x, l.i>>}
    [] l.pc = "cas" -> {<<l.prev[l.i], l.i>>}
    [] l.pc = "near" -> FindAccess(ar, l.key, FALSE, TRUE, l.n, l.level)
    [] OTHER -> {}

\* The tower slots the next step of the reader loads: inside findNear and
\* findLast (line 305), and by SeekToFirst (line 403) and Next (line 381).
ReaderAccess(sk, ar, c, i) ==
  CASE c.pc = "find" ->
         FindAccess(ar, c.key, FindLess(c.op), FindAllowEqual(c.op), c.n, c.level)
    [] c.pc = "last" -> {<<c.n, c.level>>}
    [] OTHER -> IF Valid(i) THEN {<<i.n, 0>>} ELSE {<<sk.head, 0>>}

\* The slot is one of the node's: the node is in the arena, the level is below
\* its height, and the slot was allocated for it.
InTower(ar, acc) ==
  /\ acc[1] # NilPtr
  /\ getNodeOffset(acc[1]) \in DOMAIN ar.nodes
  /\ acc[2] >= 0
  /\ acc[2] < Deref(ar, acc[1]).height
  /\ acc[2] \in DOMAIN Deref(ar, acc[1]).tower

\* C20: under any interleaving of Puts with the calls that read the list, every
\* tower slot a step loads, stores or swaps is a slot of its node: its level is
\* below the node's height.
C20_TowerAccessBelowHeight ==
  /\ \A g \in Goroutines : \A acc \in CallAccess(a, thr[g].l) : InTower(a, acc)
  /\ \A acc \in ReaderAccess(s, a, iters, it) : InTower(a, acc)

\* The reader's findNear stands at the top slot of a node lower than the list,
\* while a Put is about to link its node at a level above 0.
C20_Witness ==
  /\ iters.pc = "find" /\ iters.n # s.head
  /\ iters.level = Deref(a, iters.n).height - 1
  /\ Deref(a, iters.n).height < s.height
  /\ \E g \in Goroutines : thr[g].l.pc = "cas" /\ thr[g].l.i >= 1

(***************************************************************************)
(* FairSpec: the goroutines of Spec, each with a program of one call less  *)
(* than MaxOps, under a fair scheduler: a goroutine that has a step to     *)
(* take is not kept from taking it for ever.                               *)
(***************************************************************************)
FairInit ==
  LET l == NewSkiplistMmap
  IN  /\ s = l.s
      /\ a = l.a
      /\ \E progs \in [Goroutines -> [1..(MaxOps - 1) -> Calls]] :
           thr = [g \in Goroutines |->
                    [prog |-> progs[g], ip |-> 0, l |-> Locals("idle", <<>>, Zero64)]]
      /\ fin = {} /\ obs = {}
      /\ failed = FALSE
      /\ it = [list |-> NilPtr, n |-> NilPtr]
      /\ hist = NoCall
      /\ model = [k \in Keys |-> Zero64]
      /\ iters = Idle /\ creator = "held" /\ resets = [n |-> 0, open |-> FALSE]

\* Goroutine g is inside a call.
InCall(g) == thr[g].l.pc \notin {"idle", "done", "panic"}

\* The step of goroutine g: the first step of its next call, or the next step
\* of the call it is in.
GoStep(g) ==
  \/ (CanCall(g, "Put") \/ CanCall(g, "Get")) /\ Took(g, StartCall(g), TRUE)
  \/ InCall(g) /\ Took(g, thr[g].l, FALSE)

FairSpec == FairInit /\ [][ConcNext]_vars /\ \A g \in Goroutines : WF_vars(GoStep(g))

\* C19: under a fair scheduler every goroutine comes to the end of its program,
\* every Put and Get having returned; and a goroutine inside a call always has
\* a step that changes the state, whatever the others do: no call waits.
C19_EveryCallReturns ==
  /\ \A g \in Goroutines : <>(thr[g].ip = Len(thr[g].prog) /\ thr[g].l.pc = "done")
  /\ [](\A g \in Goroutines : InCall(g) => ENABLED <<GoStep(g)>>_vars)

\* Both goroutines have come to the end of their programs, and one has returned
\* from a Put that had to try again: both drew the full height for the same new
\* key, and the one that lost the CAS at level 0 searched the splice again.
C19_Witness ==
  /\ AllReturned
  /\ \E g, h \in Goroutines :
       /\ g # h
       /\ PutDone(g) /\ thr[g].l.height = maxHeight /\ thr[g].l.target = NilPtr
       /\ PutDone(h) /\ thr[h].l.height = maxHeight /\ thr[h].l.target = thr[g].l.x
=============================================================================
